---- MODULE Spec2Model ----
(***************************************************************************)
(* A model of two management commands of charity-django:                   *)
(*   import_companies  (companies/management/commands/import_companies.py) *)
(*   logcommand        (utils/management/commands/logcommand.py)           *)
(* Text values are sequences of one-character strings, so that strip,      *)
(* split, replace and strptime are computed as the Python code computes    *)
(* them.  A database table is a bag of rows (a row stored twice counts 2).  *)
(***************************************************************************)
EXTENDS Integers, Sequences, FiniteSets, Bags, TLC

(* ------------------------------ bounds -------------------------------- *)
\* invocations of import_companies that are explored
MaxRuns == 2
\* ZIP links discovered on the index page
MaxLinks == 2
\* rows of the CSV file inside one ZIP
MaxRows == 2
\* distinct CompanyNumber values in the input
MaxCompany == 2
\* Command.bulk_limit (import_companies.py:81 sets 10000), scaled down
bulk_limit == 2
\* the row index of the debug break (import_companies.py:190 uses 100), scaled
DebugLimit == 0
\* invocations of import_companies that are explored on fixed files
IdemRuns == 3
\* invocations of logcommand in one process
MaxLogRuns == 2
\* log records the wrapped command emits in one logcommand run
MaxEmits == 2

(* ------------------------------ text ---------------------------------- *)
Digits == {"0", "1", "2", "3", "4", "5", "6", "7", "8", "9"}

DigitVal(c) ==
    CASE c = "0" -> 0 [] c = "1" -> 1 [] c = "2" -> 2 [] c = "3" -> 3
      [] c = "4" -> 4 [] c = "5" -> 5 [] c = "6" -> 6 [] c = "7" -> 7
      [] c = "8" -> 8 [] c = "9" -> 9 [] OTHER -> 0

RECURSIVE NumVal(_)
NumVal(s) ==
    IF s = <<>> THEN 0
    ELSE NumVal(SubSeq(s, 1, Len(s) - 1)) * 10 + DigitVal(s[Len(s)])

AllDigits(s) == \A i \in 1..Len(s) : s[i] \in Digits

\* str.strip(): leading and trailing whitespace removed
RECURSIVE LStrip(_)
LStrip(s) ==
    IF s # <<>> /\ Head(s) = " " THEN LStrip(Tail(s)) ELSE s

RECURSIVE RStrip(_)
RStrip(s) ==
    IF s # <<>> /\ s[Len(s)] = " " THEN RStrip(SubSeq(s, 1, Len(s) - 1)) ELSE s

Strip(s) == RStrip(LStrip(s))

\* the least index at which pat occurs in s, 0 when it does not
Find(s, pat) ==
    LET hits == { i \in 1..(Len(s) - Len(pat) + 1) :
                    SubSeq(s, i, i + Len(pat) - 1) = pat }
    IN  IF hits = {} THEN 0 ELSE CHOOSE i \in hits : \A j \in hits : i <= j

\* str.replace(pat, ""): every occurrence of pat removed, left to right
RECURSIVE RemoveAll(_, _)
RemoveAll(s, pat) ==
    LET i == Find(s, pat)
    IN  IF i = 0 THEN s
        ELSE SubSeq(s, 1, i - 1)
               \o RemoveAll(SubSeq(s, i + Len(pat), Len(s)), pat)

\* str.split(sep, maxsplit=1): one or two parts
SplitOnce(s, sep) ==
    LET i == Find(s, sep)
    IN  IF i = 0 THEN <<s>>
        ELSE <<SubSeq(s, 1, i - 1), SubSeq(s, i + Len(sep), Len(s))>>

\* str.split(c) on a one-character separator: every part
RECURSIVE SplitChar(_, _)
SplitChar(s, c) ==
    LET i == Find(s, <<c>>)
    IN  IF i = 0 THEN <<s>>
        ELSE <<SubSeq(s, 1, i - 1)>> \o SplitChar(SubSeq(s, i + 1, Len(s)), c)

(* ------------------------------ dates --------------------------------- *)
\* Python's None, and a ValueError raised where a value was expected; every
\* value of a column is a sequence, a date being <<"date", year, month, day>>
None == <<"None">>
ValueError == <<"ValueError">>
\* no exception
NoException == "none"

IsLeap(y) == (y % 4 = 0 /\ y % 100 # 0) \/ y % 400 = 0

DaysIn(y, m) ==
    IF m \in {4, 6, 9, 11} THEN 30
    ELSE IF m = 2 THEN (IF IsLeap(y) THEN 29 ELSE 28)
    ELSE 31

\* the date of day d, month m, year y; ValueError when there is no such day
DateOf(y, m, d) ==
    IF m \in 1..12 /\ y >= 1 /\ d >= 1 /\ d <= DaysIn(y, m)
    THEN <<"date", y, m, d>>
    ELSE ValueError

\* the parts of a text split at "/" read as %d, %m and %Y
DateOfParts(p) ==
    IF Len(p) # 3 THEN ValueError
    ELSE IF ~(AllDigits(p[1]) /\ Len(p[1]) \in {1, 2}) THEN ValueError
    ELSE IF ~(AllDigits(p[2]) /\ Len(p[2]) \in {1, 2}) THEN ValueError
    ELSE IF ~(AllDigits(p[3]) /\ Len(p[3]) = 4) THEN ValueError
    ELSE DateOf(NumVal(p[3]), NumVal(p[2]), NumVal(p[1]))

\* datetime.datetime.strptime(s, "%d/%m/%Y"): the date, or
\* ValueError when s does not match the format or names no calendar day
strptime(s) == DateOfParts(SplitChar(s, "/"))

(* --------------------------- input rows ------------------------------- *)
NUL == "NUL"
T_Empty == <<>>
T_GoodDate == <<"3", "1", "/", "0", "1", "/", "2", "0", "2", "0">>
T_BadDate == <<"3", "1", "/", "0", "2", "/", "2", "0", "2", "0">>
T_OldA == <<" ", "O", "L", "D", " ", "A">>
T_NoneSupplied ==
    <<"N", "o", "n", "e", " ", "S", "u", "p", "p", "l", "i", "e", "d">>
T_SicX == <<"7", "0", " ", "-", " ", "X", " ">>
T_SicNoTitle == <<"7", "0">>
T_Sep == <<" ", "-", " ">>

DigitChar == <<"1", "2", "3", "4", "5", "6", "7", "8", "9">>
CompanyNumberText(n) == <<"0", DigitChar[n]>>

\* every combination of the column values of the model
AllRows ==
    [ CompanyNumber : { CompanyNumberText(n) : n \in 1..MaxCompany },
      IncorporationDate : {T_GoodDate, T_BadDate},
      SICCode_SicText_1 : {T_NoneSupplied, T_SicX, T_SicNoTitle},
      PreviousName_1_CONDATE : {T_Empty, T_GoodDate, T_BadDate},
      PreviousName_1_CompanyName : {T_Empty, T_OldA} ]

\* the rows the CSV files are made of: every combination for the first
\* company; for a further company the rows with a good IncorporationDate,
\* no SIC code, and a previous name that is absent or complete
InputRows ==
    { r \in AllRows :
        \/ r.CompanyNumber = CompanyNumberText(1)
        \/ /\ r.IncorporationDate = T_GoodDate
           /\ r.SICCode_SicText_1 = T_NoneSupplied
           /\ r.PreviousName_1_CONDATE # T_BadDate
           /\ (r.PreviousName_1_CONDATE = T_Empty)
                 = (r.PreviousName_1_CompanyName = T_Empty) }

\* Command.date_fields
date_fields ==
    {"DissolutionDate", "IncorporationDate", "Accounts_NextDueDate",
     "Accounts_LastMadeUpDate", "Returns_NextDueDate", "Returns_LastMadeUpDate",
     "ConfStmtNextDueDate", "ConfStmtLastMadeUpDate"}

\* "except ValueError: record[f] = None"
NoneIfError(d) == IF d = ValueError THEN None ELSE d

\* clean_fields on one field f holding the text v
CleanValue(f, v) ==
    IF v = <<>> THEN None
    ELSE IF f \in date_fields
         THEN NoneIfError(strptime(Strip(v)))
    ELSE RemoveAll(Strip(v), <<NUL>>)

clean_fields(record) == [f \in DOMAIN record |-> CleanValue(f, record[f])]

(* ------------------------------ schema -------------------------------- *)
\* Meta.unique_together of each model ( <<>> : none, the key is the pk )
UniqueTogether(model) ==
    CASE model = "PreviousName" -> <<"company", "CompanyName">>
      [] model = "CompanySICCode" -> <<"company", "sic_code">>
      [] OTHER -> <<>>

\* the primary key of a model instance (None for an unsaved auto id)
Pk(model, record) ==
    IF model = "Company" THEN record.CompanyNumber ELSE None

\* MODEL_UPDATES[model]["unique_fields"]
UniqueFields(model) ==
    CASE model = "Company" -> <<"CompanyNumber">>
      [] model = "PreviousName" -> <<"company", "CompanyName">>
      [] model = "CompanySICCode" -> <<"company", "sic_code">>

\* MODEL_UPDATES[model]["update_fields"]
UpdateFields(model) ==
    CASE model = "Company" -> {"IncorporationDate", "in_latest_update"}
      [] model = "PreviousName" -> {"in_latest_update"}
      [] model = "CompanySICCode" -> {"in_latest_update"}

Project(record, fields) == [i \in 1..Len(fields) |-> record[fields[i]]]

ConflictKey(model, record) == Project(record, UniqueFields(model))

(* ------------------------------ tables -------------------------------- *)
EmptyDb ==
    [ Company |-> EmptyBag, PreviousName |-> EmptyBag,
      CompanySICCode |-> EmptyBag, SICCode |-> EmptyBag ]

\* the table with every row r replaced by f[r]
RECURSIVE RewriteRows(_, _, _)
RewriteRows(table, f, todoRows) ==
    IF todoRows = {} THEN EmptyBag
    ELSE LET r == CHOOSE x \in todoRows : TRUE
         IN  [x \in {f[r]} |-> table[r]] (+) RewriteRows(table, f, todoRows \ {r})

Rewrite(table, f) == RewriteRows(table, f, BagToSet(table))

\* QuerySet.update(in_latest_update=False)
UnflagAll(table) ==
    Rewrite(table, [r \in BagToSet(table) |-> [r EXCEPT !.in_latest_update = FALSE]])

\* a delete that removes nothing
KeepAllRows(table) == table

\* QuerySet.exclude(in_latest_update=True).delete()
DeleteUnflagged(table) ==
    LET keep == { r \in BagToSet(table) : r.in_latest_update = TRUE }
    IN  [r \in keep |-> table[r]]

\* INSERT of one row with no conflict clause
InsertRow(table, model, obj) == table (+) SetToBag({obj})

\* bulk_create without its conflict clause: every object is inserted
InsertAlways(table, model, obj) == table (+) SetToBag({obj})

\* bulk_create(ignore_conflicts=True): a row whose key is taken is skipped
UpsertIgnoreConflicts(table, model, obj) ==
    IF \E r \in BagToSet(table) : ConflictKey(model, r) = ConflictKey(model, obj)
    THEN table
    ELSE table (+) SetToBag({obj})

\* one row of bulk_create(update_conflicts=True, update_fields, unique_fields):
\* INSERT ... ON CONFLICT (unique_fields) DO UPDATE SET update_fields
Upsert(table, model, obj) ==
    LET hit == { r \in BagToSet(table) :
                   ConflictKey(model, r) = ConflictKey(model, obj) }
        upd(r) == [f \in DOMAIN r |->
                     IF f \in UpdateFields(model) THEN obj[f] ELSE r[f]]
    IN  IF hit = {} THEN InsertRow(table, model, obj)
        ELSE Rewrite(table, [r \in BagToSet(table) |->
                               IF r \in hit THEN upd(r) ELSE r])

\* Model.objects.bulk_create(objs, **MODEL_UPDATES[model])
RECURSIVE bulk_create(_, _, _)
bulk_create(table, model, objs) ==
    IF objs = <<>> THEN table
    ELSE bulk_create(Upsert(table, model, Head(objs)), model, Tail(objs))

\* SICCode.objects.update_or_create(code=code, defaults={"title": title})
update_or_create(table, code, title) ==
    LET hit == { r \in BagToSet(table) : r.code = code }
    IN  IF hit = {} THEN table (+) SetToBag({[code |-> code, title |-> title]})
        ELSE Rewrite(table, [r \in BagToSet(table) |->
                               IF r \in hit THEN [r EXCEPT !.title = title] ELSE r])

(* ------------------------------ state --------------------------------- *)
VARIABLES
    db,             \* the committed database
    tx,             \* the database as seen inside handle's transaction
    pc,             \* where import_companies is
    run,            \* invocations of handle started so far
    debug,          \* options["debug"]
    toFetch,        \* ZIP links of the index page not fetched yet
    files,          \* self.files: the links fetched, in insertion order
    filePos,        \* the position in files of the file being parsed
    index,          \* rows of that CSV passed to parse_row so far
    records,        \* self.records: <<[model, objs]>> in insertion order
    sic_code_cache, \* self.sic_code_cache (its keys)
    err,            \* the exception that ended the invocation
    failedAt,       \* the value of pc when that exception was raised
    dbBefore,       \* history: db when the invocation started
    fetchLog,       \* history: outcome of fetching each link in this run
    lastRow,        \* history: <<the row on which parse_row raised>>, or <<>>
    added,          \* history: keys passed to add_record in this run
    written,        \* history: keys passed to bulk_create in this run
    early,          \* history: keys of the sub-records passed to bulk_create
                    \* in this run before their company's key was
    lastParsed,     \* history: per CompanyNumber, the Company last built
    maxPending,     \* history: the largest len(records[Company]) at the return of
                    \* an add_record call of the row last parsed
    fixture,        \* <<the files the remote site serves, when they are fixed>>,
                    \* else <<>>
    logs,           \* logcommand: CommandLog rows as persisted
    instances,      \* logcommand: the in-memory CommandLog instances
    handlers,       \* logcommand: handlers on the root logger
    lpc,            \* logcommand: where the current invocation is
    cur,            \* logcommand: the run number of the current invocation
    emits,          \* logcommand: records the wrapped command emitted this run
    raised          \* logcommand: the exception re-raised to the caller

importVars ==
    <<db, tx, pc, run, debug, toFetch, files, filePos, index,
      records, sic_code_cache, err, failedAt, dbBefore, fetchLog, lastRow,
      added, written, early, lastParsed, maxPending, fixture>>

logVars == <<logs, instances, handlers, lpc, cur, emits, raised>>

vars == <<importVars, logVars>>

(* ------------------------ the record batches -------------------------- *)
\* the key add_record files a record under
BatchKey(model, record) ==
    IF UniqueTogether(model) # <<>>
    THEN Project(record, UniqueTogether(model))
    ELSE <<Pk(model, record)>>

\* position of model in self.records, 0 when the defaultdict has no such key
ModelPos(recs, model) ==
    LET hits == { i \in 1..Len(recs) : recs[i].model = model }
    IN  IF hits = {} THEN 0 ELSE CHOOSE i \in hits : TRUE

\* len(self.records[model]) without inserting the key
BatchLen(recs, model) ==
    IF ModelPos(recs, model) = 0 THEN 0 ELSE Len(recs[ModelPos(recs, model)].objs)

\* d.setdefault(key, record): an existing key keeps its record
DictPutKeepFirst(objs, model, record) ==
    IF \E i \in 1..Len(objs) : BatchKey(model, objs[i]) = BatchKey(model, record)
    THEN objs
    ELSE Append(objs, record)

\* dict assignment d[key] = record: an existing key keeps its position
DictPut(objs, model, record) ==
    LET hits == { i \in 1..Len(objs) :
                    BatchKey(model, objs[i]) = BatchKey(model, record) }
    IN  IF hits = {} THEN Append(objs, record)
        ELSE [i \in 1..Len(objs) |-> IF i \in hits THEN record ELSE objs[i]]

\* self.records[model][unique_fields] = record
PutRecord(recs, model, record) ==
    LET p == ModelPos(recs, model)
    IN  IF p = 0
        THEN Append(recs, [model |-> model, objs |-> <<record>>])
        ELSE [recs EXCEPT ![p].objs = DictPut(recs[p].objs, model, record)]

KeysOf(model, objs) == { BatchKey(model, objs[i]) : i \in 1..Len(objs) }

\* the keys of a batch of model m whose company (the first field of the key
\* of a sub-record) is not among the Company keys written so far
EarlyKeys(companies, m, keys) ==
    IF m = "Company" THEN {}
    ELSE { k \in keys : <<k[1]>> \notin companies }

\* save_records(model) for the batch at position i of self.records
SaveBatch(st, i, m, b) ==
    [st EXCEPT !.records[i].objs = <<>>,
               !.tx[m] = bulk_create(@, m, b),
               !.written[m] = @ \cup KeysOf(m, b),
               !.early = @ \cup EarlyKeys(st.written.Company, m, KeysOf(m, b))]

\* the batches from position i on written last to first
RECURSIVE SaveFromLast(_, _)
SaveFromLast(st, i) ==
    IF i > Len(st.records) THEN st
    ELSE IF Len(st.records[i].objs) = 0 THEN SaveFromLast(st, i + 1)
    ELSE SaveBatch(SaveFromLast(st, i + 1), i,
                   st.records[i].model, st.records[i].objs)

\* save_all_records from position i on: every non-empty batch is written
\* with bulk_create (save_records) and emptied, in the dict's order
RECURSIVE SaveFrom(_, _)
SaveFrom(st, i) ==
    IF i > Len(st.records) THEN st
    ELSE IF Len(st.records[i].objs) = 0 THEN SaveFrom(st, i + 1)
    ELSE SaveFrom(SaveBatch(st, i, st.records[i].model, st.records[i].objs), i + 1)

\* save_records(Company) alone
SaveCompanyOnly(st) ==
    IF BatchLen(st.records, "Company") = 0 THEN st
    ELSE SaveBatch(st, ModelPos(st.records, "Company"), "Company",
                   st.records[ModelPos(st.records, "Company")].objs)

save_all_records(st) == SaveFrom(st, 1)

\* a flush test that lets the batch reach the limit
FlushDueLate(recs) == BatchLen(recs, "Company") > bulk_limit

\* the flush test of add_record
FlushDue(recs) == BatchLen(recs, "Company") >= bulk_limit

\* the rest of add_record once the record is in its batch
FlushIfDue(st) == IF FlushDue(st.records) THEN save_all_records(st) ELSE st

\* add_record(model, record) on st, the Command's records with the
\* transaction's tables (and the history of the keys written)
add_record(st, model, record) ==
    FlushIfDue([st EXCEPT !.records = PutRecord(@, model, record)])

(* ------------------------------ parse_row ----------------------------- *)
\* "if row[k] and row[k] != ''"
Truthy(v) == v # None /\ v # <<>>

\* a SICCode.SicText value that names a code
SicSupplied(v) == Truthy(v) /\ RemoveAll(v, T_NoneSupplied) # <<>>

\* "sic_code, sic_title = (v.strip() for v in row[k].split(' - ', maxsplit=1))":
\* <<code, title>>, or ValueError when the text holds no " - "
UnpackSic(parts) ==
    IF Len(parts) # 2 THEN ValueError
    ELSE <<Strip(parts[1]), Strip(parts[2])>>

\* the SICCode_SicText_1 column: None (no code), ValueError, or <<code, title>>
SicColumn(v) ==
    IF SicSupplied(v) THEN UnpackSic(SplitOnce(v, T_Sep)) ELSE None

\* the PreviousName_1_CONDATE column: None (blank), ValueError, or the date
ConDateColumn(v) == IF Truthy(v) THEN strptime(v) ELSE None

\* the PreviousName_1_CompanyName column: None (blank) or the name
NameColumn(v) == IF Truthy(v) THEN v ELSE None

\* the result of parse_row's column loop: the columns are read in the file's
\* order, so the SIC column's exception comes before the CONDATE column's
ColumnLoop(c, sic, con, name) ==
    [ clean |-> c,
      err |-> IF sic = ValueError \/ con = ValueError THEN "ValueError"
              ELSE NoException,
      sicWritten |-> sic \notin {None, ValueError},
      sic_code |-> IF sic \in {None, ValueError} THEN None ELSE sic[1],
      sic_title |-> IF sic \in {None, ValueError} THEN None ELSE sic[2],
      previous_names |->
        IF con # None \/ name # None
        THEN <<[CONDATE |-> con, CompanyName |-> name]>>
        ELSE <<>> ]

CleanedColumns(c) ==
    ColumnLoop(c, SicColumn(c.SICCode_SicText_1),
               ConDateColumn(c.PreviousName_1_CONDATE),
               NameColumn(c.PreviousName_1_CompanyName))

\* parse_row up to the construction of the Company
ParseColumns(row) == CleanedColumns(clean_fields(row))

\* the Company parse_row builds
CompanyOf(c) ==
    [ CompanyNumber |-> c.CompanyNumber,
      IncorporationDate |-> c.IncorporationDate,
      in_latest_update |-> TRUE ]

\* the add_record call for previous name n of the company; n["CompanyName"]
\* or n["CONDATE"] raises KeyError when the column was blank
PreviousNameCall(n, number) ==
    IF n.CompanyName # None /\ n.CONDATE # None
    THEN [op |-> "add", model |-> "PreviousName",
          record |-> [company |-> number, CompanyName |-> n.CompanyName,
                      ConDate |-> n.CONDATE, in_latest_update |-> TRUE]]
    ELSE [op |-> "raise", model |-> "PreviousName", record |-> None]

SicCodeCall(code, number) ==
    [op |-> "add", model |-> "CompanySICCode",
     record |-> [company |-> number, sic_code |-> code, in_latest_update |-> TRUE]]

\* the calls after add_record(Company, company): the previous names, then
\* the SIC codes, cut at the first call that raises
ChildCalls(pn, sc) ==
    IF pn # <<>> /\ pn[1].op = "raise" THEN pn ELSE pn \o sc

\* the add_record calls of parse_row, in order
Calls(p) ==
    <<[op |-> "add", model |-> "Company", record |-> CompanyOf(p.clean)]>>
      \o ChildCalls(
           IF p.previous_names = <<>> THEN <<>>
           ELSE <<PreviousNameCall(p.previous_names[1], p.clean.CompanyNumber)>>,
           IF p.sic_code = None THEN <<>>
           ELSE <<SicCodeCall(p.sic_code, p.clean.CompanyNumber)>>)

\* parse_row's column loop on every input row of the model
ParsedRows == [row \in InputRows |-> ParseColumns(row)] @@ <<>>

(* ------------------------------ handle -------------------------------- *)
NoKeys == [Company |-> {}, PreviousName |-> {}, CompanySICCode |-> {}]

\* an exit that keeps the writes of the block
KeepWrites(committed, working) == working

\* what the database holds after an exception leaves
\* "with transaction.atomic()": the writes of the block are rolled back
Rollback(committed, working) == committed

\* an "except" clause that catches nothing
CaughtNever == {}

\* the exceptions fetch_file's "except" clause catches for one link
CaughtPerLink == {"ChunkedEncodingError"}

\* the outcomes of session.get(link) followed by raise_for_status()
FetchOutcomes == {"ok", "ChunkedEncodingError", "ConnectionError", "HTTPError"}

\* "if self.debug and index >= 100: break", index being the row just parsed
BreakDue == debug /\ index >= 1 /\ index - 1 >= DebugLimit

ImportInit ==
    /\ db = EmptyDb
    /\ tx = EmptyDb
    /\ pc = "idle"
    /\ run = 0
    /\ debug = FALSE
    /\ toFetch = {}
    /\ files = <<>>
    /\ filePos = 1
    /\ index = 0
    /\ records = <<>>
    /\ sic_code_cache = {}
    /\ err = NoException
    /\ failedAt = NoException
    /\ dbBefore = EmptyDb
    /\ fetchLog = <<>>
    /\ lastRow = <<>>
    /\ added = NoKeys
    /\ written = NoKeys
    /\ early = {}
    /\ lastParsed = <<>>
    /\ maxPending = 0
    /\ fixture = <<>>

\* the history kept beside one add_record call h of parse_row
Noted(st, h) ==
    [st EXCEPT
       !.added[h.model] = @ \cup {BatchKey(h.model, h.record)},
       !.lastParsed = IF h.model = "Company"
                      THEN (h.record.CompanyNumber :> h.record) @@ @
                      ELSE @,
       !.maxPending = IF BatchLen(st.records, "Company") > @
                      THEN BatchLen(st.records, "Company") ELSE @]

\* the add_record calls of parse_row made one after the other; a call that
\* raises ends them
RECURSIVE RunCalls(_, _)
RunCalls(st, calls) ==
    IF calls = <<>> THEN st
    ELSE IF Head(calls).op = "raise" THEN [st EXCEPT !.exc = "KeyError"]
    ELSE RunCalls(Noted(add_record(st, Head(calls).model, Head(calls).record),
                        Head(calls)),
                  Tail(calls))

\* an exception propagates out of handle: the transaction is rolled back
\* and the Command object of the invocation is dropped with it
Raise(e, row) ==
    /\ pc' = "failed"
    /\ err' = e
    /\ failedAt' = pc
    /\ lastRow' = row
    /\ db' = Rollback(db, tx)
    /\ tx' = db'
    /\ toFetch' = {}
    /\ files' = <<>>
    /\ filePos' = 1
    /\ index' = 0
    /\ records' = <<>>
    /\ sic_code_cache' = {}
    /\ fetchLog' = <<>>
    /\ added' = NoKeys
    /\ written' = NoKeys
    /\ early' = {}
    /\ lastParsed' = <<>>
    /\ maxPending' = 0
    /\ UNCHANGED <<run, debug, dbBefore, fixture, logVars>>

\* the invocations explored: more when the files served are fixed
RunLimit == IF fixture = <<>> THEN MaxRuns ELSE IdemRuns

\* Command() and the start of handle: the flags of every row are cleared
HandleStart(dbg) ==
    /\ pc \in {"idle", "done", "failed"}
    /\ run < RunLimit
    /\ run' = run + 1
    /\ debug' = dbg
    /\ records' = <<>>
    /\ sic_code_cache' = {}
    /\ tx' = [db EXCEPT !.Company = UnflagAll(@),
                        !.CompanySICCode = UnflagAll(@),
                        !.PreviousName = UnflagAll(@)]
    /\ dbBefore' = db
    /\ pc' = "index"
    /\ err' = NoException
    /\ failedAt' = NoException
    /\ toFetch' = {}
    /\ files' = <<>>
    /\ filePos' = 1
    /\ index' = 0
    /\ fetchLog' = <<>>
    /\ lastRow' = <<>>
    /\ added' = NoKeys
    /\ written' = NoKeys
    /\ early' = {}
    /\ lastParsed' = <<>>
    /\ maxPending' = 0
    /\ UNCHANGED <<db, fixture, logVars>>

\* fetch_file: the index page; n of its links match zip_regex
FetchIndex(ok, n) ==
    /\ pc = "index"
    /\ IF ok
       THEN /\ toFetch' = 1..n
            /\ pc' = IF n = 0 THEN "files" ELSE "links"
            /\ UNCHANGED <<db, tx, run, debug, files, filePos, index,
                           records, sic_code_cache, err, failedAt, dbBefore,
                           fetchLog, lastRow, added, written, early, lastParsed,
                           maxPending,
                           fixture, logVars>>
       ELSE Raise("HTTPError", <<>>)

\* fetch_file: one pass of the loop over the links, for a link that matches
\* zip_regex (the links are taken in ascending order)
FetchLink(link, outcome) ==
    /\ pc = "links"
    /\ link \in toFetch
    /\ \A other \in toFetch : link <= other
    /\ IF outcome = "ok" \/ outcome \in CaughtPerLink
       THEN /\ toFetch' = toFetch \ {link}
            /\ fetchLog' = (link :> outcome) @@ fetchLog
            /\ files' = IF outcome = "ok" THEN Append(files, link) ELSE files
            /\ pc' = IF toFetch' = {} THEN "files" ELSE "links"
            /\ UNCHANGED <<db, tx, run, debug, filePos, index, records,
                           sic_code_cache, err, failedAt, dbBefore, lastRow,
                           added, written, early, lastParsed, maxPending,
                           fixture, logVars>>
       ELSE Raise(outcome, <<>>)

\* parse_file: the ZIP of the next fetched link is opened
OpenFile(ok) ==
    /\ pc = "files"
    /\ filePos <= Len(files)
    /\ IF ok
       THEN /\ index' = 0
            /\ pc' = "rows"
            /\ UNCHANGED <<db, tx, run, debug, toFetch, files, filePos,
                           records, sic_code_cache, err, failedAt, dbBefore,
                           fetchLog, lastRow, added, written, early, lastParsed,
                           maxPending,
                           fixture, logVars>>
       ELSE Raise("BadZipFile", <<>>)

\* the SICCode table after parse_row's column loop on a row parsed as p
SicCodesAfter(table, p, cache) ==
    IF p.sicWritten /\ p.sic_code \notin cache
    THEN update_or_create(table, p.sic_code, p.sic_title)
    ELSE table

\* the Command and the tables after parse_row made every add_record call
AfterCalls(p) ==
    RunCalls([ records |-> records,
               tx |-> [tx EXCEPT !.SICCode = SicCodesAfter(@, p, sic_code_cache)],
               written |-> written, early |-> early, added |-> added,
               lastParsed |-> lastParsed, maxPending |-> 0,
               exc |-> NoException ],
             Calls(p))

\* the exception parse_row raises on a row parsed as p, st being AfterCalls(p)
RowException(p, st) == IF p.err # NoException THEN p.err ELSE st.exc

\* parse_file: parse_row on the next row of the CSV
ParseRow(row) ==
    /\ pc = "rows"
    /\ index < MaxRows
    /\ ~BreakDue
    /\ LET p == ParsedRows[row]
           st == AfterCalls(p)
       IN  IF RowException(p, st) = NoException
           THEN /\ index' = index + 1
                /\ lastRow' = <<>>
                /\ sic_code_cache' = IF p.sicWritten
                                     THEN sic_code_cache \cup {p.sic_code}
                                     ELSE sic_code_cache
                /\ tx' = st.tx
                /\ records' = st.records
                /\ written' = st.written
                /\ early' = st.early
                /\ added' = st.added
                /\ lastParsed' = st.lastParsed
                /\ maxPending' = st.maxPending
                /\ UNCHANGED <<db, pc, run, debug, toFetch, files, filePos, err,
                               failedAt, dbBefore, fetchLog, fixture, logVars>>
           ELSE Raise(RowException(p, st), <<row>>)

\* parse_file: the CSV has no further row, or the debug break was taken:
\* save_all_records
EndFile ==
    /\ pc = "rows"
    /\ LET st == save_all_records([records |-> records, tx |-> tx,
                                   written |-> written, early |-> early])
       IN  /\ records' = st.records
           /\ tx' = st.tx
           /\ written' = st.written
           /\ early' = st.early
    /\ filePos' = filePos + 1
    /\ pc' = "files"
    /\ UNCHANGED <<db, run, debug, toFetch, files, index,
                   sic_code_cache, err, failedAt, dbBefore, fetchLog, lastRow,
                   added, lastParsed, maxPending,
                   fixture, logVars>>

\* a cleanup loop over every model that carries the flag
EveryFlaggedModel == {"Company", "CompanySICCode", "PreviousName"}

\* the models handle's cleanup loop deletes from
CleanupModels == {"CompanySICCode", "PreviousName"}

\* handle: every file is parsed; rows not in the latest update are deleted
Cleanup ==
    /\ pc = "files"
    /\ filePos > Len(files)
    /\ tx' = [m \in DOMAIN tx |->
                IF m \in CleanupModels THEN DeleteUnflagged(tx[m]) ELSE tx[m]]
    /\ pc' = "sql"
    /\ UNCHANGED <<db, run, debug, toFetch, files, filePos, index,
                   records, sic_code_cache, err, failedAt, dbBefore, fetchLog,
                   lastRow, added, written, early, lastParsed, maxPending,
                   fixture, logVars>>

\* the statements of UPDATE_COMPANIES (_company_sql.py): post-processing
\* that neither inserts nor deletes rows of the four tables
PostProcessSql(working) == working

\* handle: the SQL is executed and the atomic block exits
PostProcess(ok) ==
    /\ pc = "sql"
    /\ IF ok
       THEN /\ db' = PostProcessSql(tx)
            /\ tx' = db'
            /\ pc' = "done"
            /\ UNCHANGED <<run, debug, toFetch, files, filePos, index,
                           records, sic_code_cache, err, failedAt, dbBefore,
                           fetchLog, lastRow, added, written, early, lastParsed,
                           maxPending,
                           fixture, logVars>>
       ELSE Raise("DatabaseError", <<>>)

(* ----------------------------- logcommand ---------------------------- *)
\* logging's levelno of a level name
LevelNo(level) ==
    CASE level = "DEBUG" -> 10 [] level = "INFO" -> 20 [] level = "WARNING" -> 30
      [] level = "ERROR" -> 40 [] level = "CRITICAL" -> 50

\* the levels of the records the wrapped command emits in the model
EmitLevels == {"DEBUG", "INFO", "ERROR", "CRITICAL"}

\* command_logger.setLevel(logging.INFO): the records the handler is given
Handled(level) == LevelNo(level) >= LevelNo("INFO")

\* the exceptions the wrapped command raises in the model: instances of
\* Exception, which "except Exception" catches
LogExceptions == {"CommandError"}

\* the message of a record the wrapped command logs itself
Message == "record"

\* self.format(record) + self.terminator: the line of a record with message
\* msg emitted at a level during run r
Line(level, r, msg) == <<level, r, msg>>

\* emit with the count of errors left out
EmitHandlerNoCount(h, level, r, msg) ==
    [h EXCEPT !.log = Append(@, Line(level, r, msg))]

\* CommandLogHandler.emit on handler h, for a record it is given
EmitHandler(h, level, r, msg) ==
    [h EXCEPT !.log = Append(@, Line(level, r, msg)),
              !.errors = IF level \in {"ERROR", "CRITICAL"} THEN @ + 1 ELSE @]

\* CommandLogHandler.emit on the handler's CommandLog instance c
EmitInstance(c, level, r, msg) == [c EXCEPT !.log = Append(@, Line(level, r, msg))]

\* teardown that takes every run for a clean one
teardownCompleted(c, h) == [c EXCEPT !.status = "completed", !.completed = TRUE]

\* CommandLogHandler.teardown on the CommandLog instance c of handler h
teardown(c, h) ==
    [c EXCEPT !.status = IF h.errors > 0 THEN "failed" ELSE "completed",
              !.completed = TRUE]

LogInit ==
    /\ logs = <<>>
    /\ instances = <<>>
    /\ handlers = <<>>
    /\ lpc = "idle"
    /\ cur = 0
    /\ emits = 0
    /\ raised = NoException

\* handle up to the try block: the CommandLog row is created with status
\* running and its handler is added to the root logger
LogStart ==
    /\ lpc \in {"idle", "done", "raised"}
    /\ cur < MaxLogRuns
    /\ cur' = cur + 1
    /\ logs' = Append(logs, [status |-> "running", log |-> <<>>, completed |-> FALSE])
    /\ instances' = Append(instances,
                           [status |-> "running", log |-> <<>>, completed |-> FALSE])
    /\ handlers' = Append(handlers, [commandlog |-> cur + 1, log |-> <<>>, errors |-> 0])
    /\ lpc' = "running"
    /\ emits' = 0
    /\ raised' = NoException
    /\ UNCHANGED importVars

\* a record emitted at a level goes to every handler of the root logger;
\* each handler appends it to its CommandLog and saves that CommandLog
Dispatch(level) ==
    /\ handlers' = [i \in DOMAIN handlers |->
                      IF Handled(level)
                      THEN EmitHandler(handlers[i], level, cur, Message)
                      ELSE handlers[i]]
    /\ instances' = [i \in DOMAIN instances |->
                       IF Handled(level) /\ \E j \in DOMAIN handlers :
                                               handlers[j].commandlog = i
                       THEN EmitInstance(instances[i], level, cur, Message)
                       ELSE instances[i]]

\* the rows after commandlog.save() in every handler that was given the record
Saved(level) ==
    [i \in DOMAIN logs |->
       IF Handled(level) /\ \E j \in DOMAIN handlers : handlers[j].commandlog = i
       THEN instances'[i] ELSE logs[i]]

\* the wrapped command logs a record
LogEmit(level) ==
    /\ lpc = "running"
    /\ emits < MaxEmits
    /\ emits' = emits + 1
    /\ Dispatch(level)
    /\ logs' = Saved(level)
    /\ UNCHANGED <<lpc, cur, raised, importVars>>

\* call_command returns: teardown
LogReturn ==
    /\ lpc = "running"
    /\ instances' = [instances EXCEPT ![cur] = teardown(@, handlers[cur])]
    /\ logs' = [logs EXCEPT ![cur] = instances'[cur]]
    /\ lpc' = "done"
    /\ UNCHANGED <<handlers, cur, emits, raised, importVars>>

\* call_command raises the exception e: logger.exception(err), teardown, raise
LogRaise(e) ==
    /\ lpc = "running"
    /\ handlers' = [i \in DOMAIN handlers |->
                      EmitHandler(handlers[i], "ERROR", cur, e)]
    /\ instances' =
         [i \in DOMAIN instances |->
            IF i = cur
            THEN teardown(EmitInstance(instances[i], "ERROR", cur, e), handlers'[cur])
            ELSE EmitInstance(instances[i], "ERROR", cur, e)]
    /\ logs' = instances'
    /\ lpc' = "raised"
    /\ raised' = e
    /\ UNCHANGED <<cur, emits, importVars>>

Init == ImportInit /\ LogInit

Next ==
    \/ \E dbg \in BOOLEAN : HandleStart(dbg)
    \/ \E ok \in BOOLEAN, n \in 0..MaxLinks : FetchIndex(ok, n)
    \/ \E link \in 1..MaxLinks, outcome \in FetchOutcomes : FetchLink(link, outcome)
    \/ \E ok \in BOOLEAN : OpenFile(ok)
    \/ \E row \in InputRows : ParseRow(row)
    \/ EndFile
    \/ Cleanup
    \/ \E ok \in BOOLEAN : PostProcess(ok)

Spec == Init /\ [][Next]_vars

LogNext ==
    \/ LogStart
    \/ \E level \in EmitLevels : LogEmit(level)
    \/ LogReturn
    \/ \E e \in LogExceptions : LogRaise(e)

LogSpec == Init /\ [][LogNext]_vars

(* ------------------------------ claims -------------------------------- *)
\* the models that carry the in_latest_update flag
FlaggedModels == {"Company", "PreviousName", "CompanySICCode"}

\* the models of the sub-records of a company
ChildModels == {"PreviousName", "CompanySICCode"}

\* the keys of the rows of a table
KeysIn(table, model) == { ConflictKey(model, r) : r \in BagToSet(table) }

\* C1, as stated: after a completed run every persisted Company, PreviousName
\* and CompanySICCode row was created or updated by that run (every other row
\* has been deleted).
C1_StaleRowsOfEveryModelDeleted ==
    pc = "done" =>
        \A m \in FlaggedModels : KeysIn(db[m], m) \subseteq written[m]

\* C1, amended: after a completed run every persisted PreviousName and
\* CompanySICCode row was created or updated by that run; a Company row that
\* was persisted before the run and not written by it is still persisted, with
\* in_latest_update false.
C1_StaleChildRowsDeleted ==
    pc = "done" =>
        /\ \A m \in ChildModels : KeysIn(db[m], m) \subseteq written[m]
        /\ \A r \in BagToSet(dbBefore.Company) :
              ConflictKey("Company", r) \notin written.Company
                 => [r EXCEPT !.in_latest_update = FALSE] \in BagToSet(db.Company)

\* C1 witness: a run completed that deleted the previous names persisted
\* before it and left an unflagged Company behind
C1_Witness ==
    /\ pc = "done"
    /\ dbBefore.PreviousName # EmptyBag
    /\ db.PreviousName = EmptyBag
    /\ \E r \in BagToSet(db.Company) : ~r.in_latest_update

\* no two rows of the table share the model's unique key
NoDuplicates(table, model) ==
    \A r \in BagToSet(table) :
        /\ table[r] = 1
        /\ \A q \in BagToSet(table) :
              ConflictKey(model, r) = ConflictKey(model, q) => r = q

\* C2: no two persisted PreviousName rows share (company, CompanyName) and no
\* two persisted CompanySICCode rows share (company, sic_code), whatever the
\* runs and their inputs were.
C2_ChildRowsUnique == \A m \in ChildModels : NoDuplicates(db[m], m)

\* C2 witness: a completed run parsed a previous name that was persisted
\* already
C2_Witness ==
    /\ pc = "done"
    /\ added.PreviousName \cap KeysIn(dbBefore.PreviousName, "PreviousName") # {}

\* C3, as stated: no error raised while fetching one ZIP link aborts the run.
C3_NoLinkErrorAbortsRun == ~(pc = "failed" /\ failedAt = "links")

\* the links of self.files
FetchedLinks == { files[i] : i \in 1..Len(files) }

\* C3, amended: a ChunkedEncodingError raised while fetching one ZIP link is
\* caught for that link only: it never ends the run, the remaining links are
\* fetched, and exactly the links fetched without error are parsed and
\* imported.  (Any other error of the fetch ends the run.)
C3_ChunkedErrorCaughtPerLink ==
    /\ pc = "failed" /\ failedAt = "links" => err # "ChunkedEncodingError"
    /\ pc \in {"files", "rows", "sql", "done"} => toFetch = {}
    /\ pc \in {"links", "files", "rows", "sql", "done"} =>
          FetchedLinks = { l \in DOMAIN fetchLog : fetchLog[l] = "ok" }
    /\ pc \in {"sql", "done"} => filePos = Len(files) + 1

\* C3 witness: a run completed and imported a file although the fetch of
\* another link raised ChunkedEncodingError
C3_Witness ==
    /\ pc = "done"
    /\ \E l \in DOMAIN fetchLog : fetchLog[l] = "ChunkedEncodingError"
    /\ files # <<>>
    /\ written.Company # {}

\* the columns of a row that hold a date
DateColumns == {"IncorporationDate", "PreviousName_1_CONDATE"}

\* parse_row raises on the row
RowFails(row) ==
    \/ ParseColumns(row).err # NoException
    \/ \E i \in 1..Len(Calls(ParseColumns(row))) :
          Calls(ParseColumns(row))[i].op = "raise"

\* the value of column f is a date that cannot be parsed, and the row is
\* accepted once a date that can be parsed stands in its place
FailsByDate(row, f) ==
    /\ row[f] # <<>>
    /\ strptime(Strip(row[f])) = ValueError
    /\ ~RowFails([row EXCEPT ![f] = T_GoodDate])

\* C4: a date that cannot be parsed, in whichever date-bearing column of a
\* row, never fails the row.
C4_UnparseableDateNeverFailsRow ==
    pc = "failed" /\ lastRow # <<>> =>
        \A f \in DateColumns : ~FailsByDate(lastRow[1], f)

\* the logcommand run i has ended
Ended(i) == i < cur \/ lpc \in {"done", "raised"}

\* the lines of a log text that record an ERROR or CRITICAL of run i
ErrorLines(log, i) ==
    { n \in 1..Len(log) : log[n][1] \in {"ERROR", "CRITICAL"} /\ log[n][2] = i }

C7_FailureRollsEverythingBack ==
    pc \notin {"idle", "done"} => db = dbBefore

\* C7 witness: an invocation failed in the SQL post-processing, after the
\* flag reset and the deletion of the rows persisted before it
C7_Witness ==
    /\ pc = "failed"
    /\ failedAt = "sql"
    /\ db.PreviousName # EmptyBag
    /\ db.SICCode # EmptyBag

\* C8: after any add_record call returned, and so between any two rows, the
\* pending Company batch holds fewer than bulk_limit records.
C8_CompanyBatchBelowLimit ==
    /\ maxPending < bulk_limit
    /\ BatchLen(records, "Company") < bulk_limit

\* C8 witness: add_record flushed the batches in the middle of the first file
C8_Witness ==
    /\ pc = "rows"
    /\ filePos = 1
    /\ written.Company # {}
    /\ BatchLen(records, "Company") = 0

\* C9: a completed import into an empty store persists one Company per
\* distinct CompanyNumber parsed, holding the values of the last row parsed
\* with that number.
C9_OneRowPerKeyLastWins ==
    pc = "done" /\ dbBefore = EmptyDb =>
        db.Company = SetToBag({ lastParsed[k] : k \in DOMAIN lastParsed })

\* C9 witness: an import into an empty store completed whose one file held
\* two rows of the same company
C9_Witness ==
    /\ pc = "done"
    /\ dbBefore = EmptyDb
    /\ Len(files) = 1
    /\ index = 2
    /\ Cardinality(DOMAIN lastParsed) = 1

\* C10: after a completed run the persisted PreviousName and CompanySICCode
\* rows are the pairs parsed in that run, one row each, all flagged.
C10_ChildRowsAreThePairsParsed ==
    pc = "done" =>
        \A m \in ChildModels :
            /\ KeysIn(db[m], m) = added[m]
            /\ NoDuplicates(db[m], m)
            /\ \A r \in BagToSet(db[m]) : r.in_latest_update

\* C10 witness: a run completed in which the fetch of a file failed and was
\* skipped; a previous name persisted before the run was not parsed and is
\* gone, one parsed in the run is persisted
C10_Witness ==
    /\ pc = "done"
    /\ \E l \in DOMAIN fetchLog : fetchLog[l] = "ChunkedEncodingError"
    /\ dbBefore.PreviousName # EmptyBag
    /\ db.PreviousName = EmptyBag
    /\ db.CompanySICCode # EmptyBag

\* C11: whenever a PreviousName or CompanySICCode record is written, the
\* Company it references was written before it, in the same flush or in an
\* earlier flush of the run.
C11_CompanyWrittenBeforeChildren ==
    /\ early = {}
    /\ \A m \in ChildModels : \A k \in written[m] : <<k[1]>> \in written.Company

\* C11 witness: the bulk_limit flush wrote a company with its previous name,
\* and a previous name of a company written by that flush is pending
C11_Witness ==
    /\ pc = "rows"
    /\ filePos = 1
    /\ written.PreviousName # {}
    /\ BatchLen(records, "PreviousName") > 0
    /\ BatchLen(records, "Company") = 0

\* C12: once parse_file has finished a CSV file, and so when the stale rows
\* are deleted, the pending batch of every model is empty and every key
\* passed to add_record in the run has been passed to bulk_create.
C12_NoRecordLeftUnflushed ==
    pc \in {"files", "sql", "done"} =>
        /\ \A i \in 1..Len(records) : records[i].objs = <<>>
        /\ \A m \in FlaggedModels : added[m] = written[m]

\* C12 witness: the debug break ended the only file after its first row,
\* which carried a previous name and a SIC code, and the cleanup has run
C12_Witness ==
    /\ pc = "sql"
    /\ debug
    /\ Len(files) = 1
    /\ index = 1
    /\ added.PreviousName # {}
    /\ added.CompanySICCode # {}

\* C14: the log text of the CommandLog of a run holds the records emitted
\* during that run and no other: a later run in the same process adds
\* nothing to the record of a run that has finished.
C14_LogIsolatedPerRun ==
    \A i \in DOMAIN logs :
        \A n \in 1..Len(logs[i].log) : logs[i].log[n][2] = i

(* ------------------- import_companies on fixed files ------------------ *)
\* the sequences over S of length at most n
SeqsUpTo(S, n) == UNION { [1..k -> S] : k \in 0..n }

\* the input rows parse_row accepts
Accepted == { r \in InputRows : ~RowFails(r) }

\* what the remote site serves: one ZIP link, its CSV rows, fetched and
\* opened without error; debug is the option the command is run with
Fixtures == [debug : BOOLEAN, rows : SeqsUpTo(Accepted, MaxRows)]

\* a first import that fills the store: two companies with a previous name,
\* one of them with a SIC code
SeedRows ==
    << [ CompanyNumber |-> CompanyNumberText(1),
         IncorporationDate |-> T_GoodDate,
         SICCode_SicText_1 |-> T_SicX,
         PreviousName_1_CONDATE |-> T_GoodDate,
         PreviousName_1_CompanyName |-> T_OldA ],
       [ CompanyNumber |-> CompanyNumberText(MaxCompany),
         IncorporationDate |-> T_GoodDate,
         SICCode_SicText_1 |-> T_NoneSupplied,
         PreviousName_1_CONDATE |-> T_GoodDate,
         PreviousName_1_CompanyName |-> T_OldA ] >>

\* the files that can be published now: any before the first invocation,
\* and any once the first import that fills the store has completed
Publishable ==
    IF \/ pc = "idle" /\ fixture = <<>>
       \/ /\ pc = "done"
          /\ run = 1
          /\ fixture = <<[debug |-> FALSE, rows |-> SeedRows, since |-> 0]>>
    THEN Fixtures
    ELSE {}

\* the remote site publishes the files f; they stay the same from the
\* invocation after run on
Publish(f) ==
    /\ f \in Publishable
    /\ fixture' = <<[debug |-> f.debug, rows |-> f.rows, since |-> run]>>
    /\ UNCHANGED <<db, tx, pc, run, debug, toFetch, files, filePos, index,
                   records, sic_code_cache, err, failedAt, dbBefore, fetchLog,
                   lastRow, added, written, early, lastParsed, maxPending,
                   logVars>>

\* the steps of handle on the files published
FixedStart == fixture # <<>> /\ HandleStart(fixture[1].debug)

FixedFetchIndex == FetchIndex(TRUE, 1)

FixedFetchLink == FetchLink(1, "ok")

FixedOpenFile == OpenFile(TRUE)

FixedParseRow ==
    /\ fixture # <<>>
    /\ index < Len(fixture[1].rows)
    /\ ParseRow(fixture[1].rows[index + 1])

FixedEndFile ==
    /\ fixture # <<>>
    /\ index = Len(fixture[1].rows) \/ BreakDue
    /\ EndFile

FixedPostProcess == PostProcess(TRUE)

IdemNext ==
    \/ \E f \in Publishable : Publish(f)
    \/ FixedStart
    \/ FixedFetchIndex
    \/ FixedFetchLink
    \/ FixedOpenFile
    \/ FixedParseRow
    \/ FixedEndFile
    \/ Cleanup
    \/ FixedPostProcess

IdemSpec == Init /\ [][IdemNext]_vars

\* C13: a run completed on the same files as the completed run before it
\* leaves the Company, PreviousName and CompanySICCode rows, values and flags
\* (last_updated is not modelled) as that run left them.
C13_SecondRunChangesNothing ==
    pc = "done" /\ fixture # <<>> /\ run - fixture[1].since >= 2 =>
        \A m \in FlaggedModels : db[m] = dbBefore[m]

\* C13 witness: after a first import of other files, two runs completed on
\* the same files; the store holds a company that is not in them, and a
\* company with a previous name that is
C13_Witness ==
    /\ pc = "done"
    /\ fixture # <<>>
    /\ fixture[1].since = 1
    /\ run = 3
    /\ written.PreviousName # {}
    /\ \E r \in BagToSet(db.Company) : ~r.in_latest_update

====
